---- MODULE Spec2Model ----
(***************************************************************************)
(* Model of the TurboNET maimai chat plugin (plugins/sysallnet_maimai.py): *)
(* the per-QQ botKey table user_bind, the Authorization header builder,    *)
(* and the nine command handlers.  A handler runs synchronously up to its  *)
(* single HTTP await, is suspended there, and on the response runs to its  *)
(* end; Matcher.finish() sends one message and ends the handler.           *)
(*                                                                         *)
(* Texts.  A str that the code parses (command arguments, the admin QQ     *)
(* environment value, a JSON string handed to int()) is a sequence of      *)
(* one-character strings.  A reply is the sequence of its parts: each      *)
(* fixed literal of an f-string is one part, written as an ASCII gloss of  *)
(* the Chinese literal (the literal is quoted in the comment next to it),  *)
(* and each formatted value is one part.                                   *)
(***************************************************************************)
EXTENDS Integers, Sequences, FiniteSets, TLC

\* ------------------------------------------------------------------ bounds
\* longest command argument / raw message text, in characters
MaxArgLen == 3
\* longest JSON array in a response body
MaxList == 2

\* characters a command argument is drawn from
ArgChars == {" ", "-", "6", "x"}
\* QQ numbers of the users that send messages (str(event.user_id))
Users == {<<"1">>, <<"2">>}
\* botKey values the remote API hands out
Keys == {"k", "q"}

RECURSIVE SeqsUpTo(_, _)
SeqsUpTo(S, n) ==
    IF n = 0 THEN {<<>>}
    ELSE LET shorter == SeqsUpTo(S, n - 1)
         IN  shorter \cup {Append(s, c) : s \in {q \in shorter : Len(q) = n - 1}, c \in S}

Args == SeqsUpTo(ArgChars, MaxArgLen)

\* longest list of numbered entries in a response body
MaxEntries == 6

\* the first n entries of a list, in its order and in the reverse order, for
\* every n up to MaxEntries
NumberedLists(entries) ==
    UNION { { [i \in 1..n |-> entries[i]], [i \in 1..n |-> entries[n + 1 - i]] } :
            n \in 0..MaxEntries }

\* arguments of /bind and /mai: only the first token is used
MaxWordLen == 2
Words == SeqsUpTo({" ", "x"}, MaxWordLen)

\* ------------------------------------------------------ str (Python) helpers
\* whitespace for str.strip(), str.split() and the regex class \s
IsSpace(c) == c \in {" ", "\n"}

\* str.strip()
RECURSIVE LStrip(_)
LStrip(s) == IF s # <<>> /\ IsSpace(Head(s)) THEN LStrip(Tail(s)) ELSE s

RECURSIVE RStrip(_)
RStrip(s) ==
    IF s # <<>> /\ IsSpace(s[Len(s)]) THEN RStrip(SubSeq(s, 1, Len(s) - 1)) ELSE s

Strip(s) == RStrip(LStrip(s))

\* str.split()[0] of a stripped, non-empty str: the run up to the first blank
RECURSIVE FirstToken(_)
FirstToken(s) ==
    IF s = <<>> \/ IsSpace(Head(s)) THEN <<>>
    ELSE <<Head(s)>> \o FirstToken(Tail(s))

\* the characters of a str as one reply part
RECURSIVE Cat(_)
Cat(s) == IF s = <<>> THEN "" ELSE Head(s) \o Cat(Tail(s))

Digits == {"0", "1", "2", "3", "4", "5", "6", "7", "8", "9"}

DigitVal(c) ==
    CASE c = "0" -> 0 [] c = "1" -> 1 [] c = "2" -> 2 [] c = "3" -> 3
      [] c = "4" -> 4 [] c = "5" -> 5 [] c = "6" -> 6 [] c = "7" -> 7
      [] c = "8" -> 8 [] c = "9" -> 9

\* the digit groups of an int literal: digits, single "_" only between digits
IsDigitRun(s) ==
    /\ s # <<>>
    /\ \A i \in 1..Len(s) : s[i] \in Digits \cup {"_"}
    /\ s[1] \in Digits /\ s[Len(s)] \in Digits
    /\ \A i \in 1..(Len(s) - 1) : ~(s[i] = "_" /\ s[i + 1] = "_")

RECURSIVE DigitRunVal(_, _)
DigitRunVal(s, acc) ==
    IF s = <<>> THEN acc
    ELSE IF Head(s) = "_" THEN DigitRunVal(Tail(s), acc)
    ELSE DigitRunVal(Tail(s), 10 * acc + DigitVal(Head(s)))

\* int(str): blanks around, an optional sign, a digit run; else ValueError
IntBody(s) == IF s # <<>> /\ Head(s) \in {"+", "-"} THEN Tail(s) ELSE s

IsIntLiteral(s) == IsDigitRun(IntBody(Strip(s)))

IntOfStr(s) ==
    LET t == Strip(s)
        v == DigitRunVal(IntBody(t), 0)
    IN  IF Head(t) = "-" THEN 0 - v ELSE v

\* ------------------------------------------------------------ JSON values
\* A parsed JSON value, tagged by its Python type.  dict.get of a missing key
\* and JSON null are both Python None (JNull).  A float is kept in tenths
\* (JFloat(39) is 3.9); JInf is the float inf that json.loads gives for 1e999.
JNull == [k |-> "null"]
JBool(b) == [k |-> "bool", b |-> b]
JInt(n) == [k |-> "int", n |-> n]
JFloat(t) == [k |-> "float", t |-> t]
JInf == [k |-> "inf"]
JNaN == [k |-> "nan"]
JStr(s) == [k |-> "str", s |-> s]
JList(l) == [k |-> "list", l |-> l]
JDict(d) == [k |-> "dict", d |-> d]

\* bool(v)
Truthy(v) ==
    CASE v.k = "null" -> FALSE
      [] v.k = "bool" -> v.b
      [] v.k = "int" -> v.n # 0
      [] v.k = "float" -> v.t # 0
      [] v.k = "str" -> v.s # <<>>
      [] v.k = "list" -> v.l # <<>>
      [] v.k = "dict" -> DOMAIN v.d # {}
      [] OTHER -> TRUE

\* v.get(f) of a dict
DictGet(v, f) == IF f \in DOMAIN v.d THEN v.d[f] ELSE JNull

\* a or b
PyOr(a, b) == IF Truthy(a) THEN a ELSE b

\* int(float) truncates toward zero
TruncTenths(t) == IF t >= 0 THEN t \div 10 ELSE 0 - ((0 - t) \div 10)

\* int(v) raises OverflowError for the float inf; _to_int catches only
\* TypeError and ValueError
ToIntRaises(v) == v.k = "inf"

\* _to_int(v, default) where int(v) does not raise past it
ToInt(v, default) ==
    CASE v.k = "int" -> v.n
      [] v.k = "bool" -> IF v.b THEN 1 ELSE 0
      [] v.k = "float" -> TruncTenths(v.t)
      [] v.k = "str" -> IF IsIntLiteral(v.s) THEN IntOfStr(v.s) ELSE default
      [] OTHER -> default

\* str(v) inside an f-string, for the scalar values the bodies below carry
PyStr(v) ==
    CASE v.k = "str" -> Cat(v.s)
      [] v.k = "int" -> ToString(v.n)
      [] v.k = "bool" -> IF v.b THEN "True" ELSE "False"
      [] v.k = "null" -> "None"
      [] v.k = "inf" -> "inf"
      [] v.k = "nan" -> "nan"
      [] OTHER -> "<repr>"

\* --------------------------------------------------------- HTTP responses
\* A response body: whether resp.json() parses it, resp.text, str() of the
\* parsed value and the parsed value.
Body(valid, text, repr, v) == [valid |-> valid, text |-> text, repr |-> repr, v |-> v]

NotJson == Body(FALSE, "<html>502</html>", "", JNull)
EmptyDict == Body(TRUE, "{}", "{}", JDict(<<>>))
EmptyList == Body(TRUE, "[]", "[]", JList(<<>>))

Denied == <<"d", "e", "n", "i", "e", "d">>

\* bodies of an error response
ErrBodies ==
    { NotJson, EmptyDict, EmptyList,
      Body(TRUE, "{\"message\": \"denied\"}", "{'message': 'denied'}",
           JDict([message |-> JStr(Denied)])),
      Body(TRUE, "{\"message\": \"\"}", "{'message': ''}",
           JDict([message |-> JStr(<<>>)])) }

Statuses == {200, 404, 500}

NoResp == [kind |-> "none", status |-> 0, body |-> NotJson]
TransportError == [kind |-> "transport", status |-> 0, body |-> NotJson]
Http(status, body) == [kind |-> "http", status |-> status, body |-> body]

\* what the remote API may answer to a request: no answer (httpx.RequestError),
\* an error status with an error body, or 200 with one of the bodies `ok`
Answers(ok) ==
    {TransportError}
        \cup {Http(st, b) : st \in Statuses \ {200}, b \in ErrBodies}
        \cup {Http(200, b) : b \in ok}

\* the non-200 branch shared by the handlers:
\*   try: err = resp.json(); msg = err.get("message") or str(err)
\*   except Exception: msg = resp.text
ErrMsg(body) ==
    IF body.valid /\ body.v.k = "dict"
    THEN IF Truthy(DictGet(body.v, "message"))
         THEN PyStr(DictGet(body.v, "message"))
         ELSE body.repr
    ELSE body.text

\* ------------------------------------------------------- state variables
VARIABLES
    user_bind,   \* the table user_bind: a set of rows [qq_id, bot_key]
    admin_env,   \* os.getenv("SYSALLNET_ADMIN_QQ"): unset, or its value
    tasks,       \* the handler invocation running in each task slot
    last_set     \* history: per QQ, the bot_key of the last executed set ("" if none)

vars == <<user_bind, admin_env, tasks, last_set>>

\* values of SYSALLNET_ADMIN_QQ in .env: absent, blank, or QQ 1 with a blank
AdminEnvs ==
    { [set |-> FALSE, val |-> <<>>],
      [set |-> TRUE, val |-> <<" ">>],
      [set |-> TRUE, val |-> <<"1", " ">>] }

\* ------------------------------------------------------ credential store
Row(qq, key) == [qq_id |-> qq, bot_key |-> key]

\* INSERT INTO user_bind: qq_id is the PRIMARY KEY, a second row with the
\* same qq_id is refused (pyodbc.IntegrityError)
Insert(table, row) ==
    IF \E r \in table : r.qq_id = row.qq_id
    THEN [ok |-> FALSE, table |-> table]
    ELSE [ok |-> TRUE, table |-> table \cup {row}]

Update(table, qq, key) ==
    {IF r.qq_id = qq THEN Row(qq, key) ELSE r : r \in table}

\* faulty variant: INSERT without the IF EXISTS test
set_user_bot_key_insert(table, qq, key) == Insert(table, Row(qq, key))

\* set_user_bot_key: IF EXISTS ... UPDATE ... ELSE INSERT, then commit
set_user_bot_key(table, qq, key) ==
    IF \E r \in table : r.qq_id = qq
    THEN [ok |-> TRUE, table |-> Update(table, qq, key)]
    ELSE Insert(table, Row(qq, key))

\* get_user_bot_key: row[0] if row else None
get_user_bot_key(table, qq) ==
    IF \E r \in table : r.qq_id = qq
    THEN [found |-> TRUE, key |-> (CHOOSE r \in table : r.qq_id = qq).bot_key]
    ELSE [found |-> FALSE, key |-> ""]

\* faulty variant: the header is set without the "if bot_key" test
build_auth_headers_unchecked(table, qq) ==
    {<<"Authorization", "BotKey " \o get_user_bot_key(table, qq).key>>}

\* _build_auth_headers: {"Authorization": "BotKey <botKey>"}, or {} if unbound
build_auth_headers(table, qq) ==
    LET bot_key == get_user_bot_key(table, qq)
    IN  IF bot_key.found /\ bot_key.key # ""
        THEN {<<"Authorization", "BotKey " \o bot_key.key>>}
        ELSE {}

\* ------------------------------------------------------ handler invocations
TaskIds == {"t1", "t2"}

NoReq == [method |-> "", path |-> "", params |-> {}, json |-> {}, headers |-> {}]
Req(method, path, params, json, headers) ==
    [method |-> method, path |-> path, params |-> params, json |-> json,
     headers |-> headers]

\* pc: "idle" (slot free), "await" (suspended in the HTTP call), "done".
\* nreq / nreply count the requests issued and messages sent; exc is the
\* exception that left the handler ("" if none); seen is history: the table
\* as it was when the handler built its headers.
Idle ==
    [pc |-> "idle", cmd |-> "", user |-> <<>>, arg |-> <<>>, headers |-> {},
     req |-> NoReq, nreq |-> 0, resp |-> NoResp, reply |-> <<>>, nreply |-> 0,
     exc |-> "", seen |-> {}]

New(cmd, user, arg) == [Idle EXCEPT !.cmd = cmd, !.user = user, !.arg = arg]

\* await matcher.finish(text): sends text, ends the handler
Finish(tk, text) == [tk EXCEPT !.pc = "done", !.reply = text, !.nreply = @ + 1]

\* an exception no except clause of the handler catches
Raise(tk, e) == [tk EXCEPT !.pc = "done", !.exc = e]

\* await client.get / client.post
Send(tk, req) == [tk EXCEPT !.pc = "await", !.req = req, !.nreq = @ + 1]

Received(tk, resp) == [tk EXCEPT !.resp = resp]

\* the handler's headers = _build_auth_headers(qq); pyodbc.connect may fail
WithHeaders(tk, table, qq) ==
    [tk EXCEPT !.headers = build_auth_headers(table, qq), !.seen = table]

DbError == "pyodbc.Error"

\* ------------------------------------------------------------- /bind
\* "用法：/bind <你的 botToken>\n机器人会调用 /bot/bind ..."
BindUsage == <<"usage: /bind <botToken>">>
\* f"请求 /bot/bind 失败：{e}"
BindTransport == <<"request /bot/bind failed: ", "<RequestError>">>
\* f"/bot/bind 返回异常（HTTP {resp.status_code}）：{msg}\n请确认 botToken 是否正确。"
BindHttpError(status, msg) ==
    <<"/bot/bind error (HTTP ", ToString(status), "): ", msg,
      "\ncheck your botToken">>
\* "解析 /bot/bind 返回内容失败，请稍后重试。"
BindParseError == <<"cannot parse /bot/bind response">>
\* "绑定失败：未在返回中找到 botKey 字段。\n..."
BindNoKey == <<"bind failed: no botKey in response">>
\* "绑定成功！" [f"你的 botId：{bot_id}"] "已为当前 QQ 绑定专属 BotKey。" ...
BindOk(bot_id) ==
    <<"bind ok">>
        \o (IF Truthy(bot_id) THEN <<"\nyour botId: ", PyStr(bot_id)>> ELSE <<>>)
        \o <<"\nBotKey bound to this QQ", "\nAuthorization: BotKey <botKey>">>

BindStart(tk) ==
    LET text == Strip(tk.arg)
    IN  IF text = <<>> THEN Finish(tk, BindUsage)
        ELSE Send(tk, Req("POST", "/bot/bind", {},
                          {<<"botToken", JStr(FirstToken(text))>>,
                           <<"botName", JStr(<<"y", "i", "b", "o", "t">>)>>},
                          {}))

\* faulty variant: no "if not bot_key" test before set_user_bot_key
BindResume_nokeycheck(tk0, resp, table, db) ==
    LET tk == Received(tk0, resp)
        same(t) == [task |-> t, table |-> table, set |-> FALSE]
        data == resp.body.v
    IN  IF resp.kind = "transport" THEN same(Finish(tk, BindTransport))
        ELSE IF resp.status # 200
        THEN same(Finish(tk, BindHttpError(resp.status, ErrMsg(resp.body))))
        ELSE IF ~resp.body.valid THEN same(Finish(tk, BindParseError))
        ELSE IF data.k # "dict" THEN same(Raise(tk, "AttributeError"))
        ELSE IF ~db THEN same(Raise(tk, DbError))
        ELSE LET w == set_user_bot_key(table, tk.user, PyStr(DictGet(data, "botKey")))
             IN  IF ~w.ok THEN same(Raise(tk, "pyodbc.IntegrityError"))
                 ELSE [task |-> Finish(tk, BindOk(DictGet(data, "botId"))),
                       table |-> w.table, set |-> TRUE]

\* the rest of handle_bind after the response; db: the database answers.
\* Gives the finished task and the table.
BindResume(tk0, resp, table, db) ==
    LET tk == Received(tk0, resp)
        same(t) == [task |-> t, table |-> table, set |-> FALSE]
        data == resp.body.v
    IN  IF resp.kind = "transport" THEN same(Finish(tk, BindTransport))
        ELSE IF resp.status # 200
        THEN same(Finish(tk, BindHttpError(resp.status, ErrMsg(resp.body))))
        ELSE IF ~resp.body.valid THEN same(Finish(tk, BindParseError))
        ELSE IF data.k # "dict" THEN same(Raise(tk, "AttributeError"))
        ELSE IF ~Truthy(DictGet(data, "botKey")) THEN same(Finish(tk, BindNoKey))
        ELSE IF ~db THEN same(Raise(tk, DbError))
        ELSE LET w == set_user_bot_key(table, tk.user, PyStr(DictGet(data, "botKey")))
             IN  IF ~w.ok THEN same(Raise(tk, "pyodbc.IntegrityError"))
                 ELSE [task |-> Finish(tk, BindOk(DictGet(data, "botId"))),
                       table |-> w.table, set |-> TRUE]

KeyBody(k, id) ==
    Body(TRUE, "{\"botKey\": ...}", "{'botKey': ...}",
         JDict([botKey |-> JStr(<<k>>), botId |-> id]))

\* 200 bodies of POST /bot/bind
BindBodies ==
    { NotJson, EmptyDict, EmptyList,
      Body(TRUE, "{\"botKey\": \"\"}", "{'botKey': ''}", JDict([botKey |-> JStr(<<>>)])) }
        \cup {KeyBody(k, id) : k \in Keys, id \in {JNull, JStr(<<"b", "7">>)}}

handle_bind(t, u, arg) ==
    /\ tasks[t].pc = "idle"
    /\ tasks' = [tasks EXCEPT ![t] = BindStart(New("bind", u, arg))]
    /\ UNCHANGED <<user_bind, admin_env, last_set>>

bind_response(t, resp, db) ==
    /\ tasks[t].pc = "await" /\ tasks[t].cmd = "bind"
    /\ LET r == BindResume(tasks[t], resp, user_bind, db)
       IN  /\ tasks' = [tasks EXCEPT ![t] = r.task]
           /\ user_bind' = r.table
           /\ last_set' = IF r.set
                          THEN [last_set EXCEPT ![tasks[t].user] =
                                    PyStr(DictGet(resp.body.v, "botKey"))]
                          ELSE last_set
    /\ UNCHANGED admin_env

\* ------------------------------------------------- shared handler pieces
\* "\n".join(lines): the parts of the lines with a "\n" part between lines
RECURSIVE JoinLines(_)
JoinLines(lines) ==
    IF lines = <<>> THEN <<>>
    ELSE IF Len(lines) = 1 THEN lines[1]
    ELSE lines[1] \o <<"\n">> \o JoinLines(Tail(lines))

\* "你还没有绑定 BotKey，无法<what>。\n请先使用：/bind <你的botToken>"
NotBound(what) == <<"no BotKey bound, cannot " \o what, "\nfirst use: /bind <botToken>">>
\* "管理员尚未绑定 BotKey，无法<what>。\n请管理员先使用：/bind <管理员botToken>"
AdminNotBound(what) ==
    <<"admin has no BotKey bound, cannot " \o what, "\nadmin must /bind first">>
\* "管理员 QQ 未配置，请在 .env 中设置 SYSALLNET_ADMIN_QQ"
AdminNotConfigured == <<"admin QQ not configured, set SYSALLNET_ADMIN_QQ">>
\* f"<path> 返回异常（HTTP {resp.status_code}）：{msg}"
HttpError(path, status, msg) == <<path \o " error (HTTP ", ToString(status), "): ", msg>>
\* f"<what>失败：{e}"
TransportFailed(what) == <<what \o " failed: ", "<RequestError>">>

Failed(resp) == resp.kind = "transport" \/ resp.status # 200

\* the except httpx.RequestError and status_code != 200 branches
FailReply(resp, what, path) ==
    IF resp.kind = "transport" THEN TransportFailed(what)
    ELSE HttpError(path, resp.status, ErrMsg(resp.body))

\* faulty variant: no "if not headers" test before the request
AuthThenSend_nocheck(tk0, table, db, qq, unbound, req) ==
    IF ~db THEN Raise(tk0, DbError)
    ELSE LET tk == WithHeaders(tk0, table, qq)
         IN  Send(tk, [req EXCEPT !.headers = tk.headers])

\* headers = _build_auth_headers(qq_id); if not headers: finish(...); then
\* the request.  db: the database answers.
AuthThenSend(tk0, table, db, qq, unbound, req) ==
    IF ~db THEN Raise(tk0, DbError)
    ELSE LET tk == WithHeaders(tk0, table, qq)
         IN  IF tk.headers = {} THEN Finish(tk, unbound)
             ELSE Send(tk, [req EXCEPT !.headers = tk.headers])

\* _fmt_number(v, nd, suffix) for None, ints, floats in tenths and values
\* float() refuses (returned through str(v))
RECURSIVE Zeros(_)
Zeros(n) == IF n <= 0 THEN "" ELSE "0" \o Zeros(n - 1)

Abs(n) == IF n < 0 THEN 0 - n ELSE n

\* f"{t/10:.{nd}f}": round-half-even at nd = 0, exact digits otherwise
Fixed(t, nd) ==
    LET a == Abs(t)
        q == a \div 10
        r == a % 10
        up == r > 5 \/ (r = 5 /\ q % 2 = 1)
        mag == IF nd = 0 THEN ToString(IF up THEN q + 1 ELSE q)
               ELSE ToString(q) \o "." \o ToString(r) \o Zeros(nd - 1)
    IN  IF t < 0 /\ ~(nd = 0 /\ q = 0 /\ ~up) THEN "-" \o mag
        ELSE IF t < 0 THEN "-0" ELSE mag

fmt_number(v, nd, suffix) ==
    CASE v.k = "null" -> "unknown"                       \* "未知"
      [] v.k = "int" -> Fixed(10 * v.n, nd) \o suffix
      [] v.k = "bool" -> Fixed(IF v.b THEN 10 ELSE 0, nd) \o suffix
      [] v.k = "float" -> Fixed(v.t, nd) \o suffix
      [] v.k = "inf" -> "inf" \o suffix
      [] v.k = "nan" -> "nan" \o suffix
      [] v.k = "str" /\ IsIntLiteral(v.s) -> Fixed(10 * IntOfStr(v.s), nd) \o suffix
      [] OTHER -> PyStr(v)

Opt(cond, line) == IF cond THEN <<line>> ELSE <<>>
IsNone(v) == v.k = "null"

\* ------------------------------------------------------------- /mai
\* "用法：/mai <TurboNET用户名>\n例如：/mai AAA_BBB"
MaiUsage == <<"usage: /mai <TurboNET user>">>
\* "解析 /web/user 返回内容失败，请稍后再试。"
MaiParseError == <<"cannot parse /web/user response">>

MaiStart(tk, table, db) ==
    LET text == Strip(tk.arg)
    IN  IF text = <<>> THEN Finish(tk, MaiUsage)
        ELSE AuthThenSend(tk, table, db, tk.user, NotBound("query"),
                 Req("POST", "/web/user", {<<"requesterId", Cat(tk.user)>>},
                     {<<"turboName", JStr(FirstToken(text))>>}, {}))

\* one line of "=== Best 35 Top 3 ===" (diff, score shown) or of
\* "=== 最近游玩 Top 3 ===" (not shown)
SongLine(i, song, best) ==
    LET name == PyStr(PyOr(DictGet(song, "musicName"), JStr(<<"?">>)))  \* "未知曲目"
        level == DictGet(song, "level")
        diff == DictGet(song, "diff")
        score_rank == DictGet(song, "scoreRank")
        achv == DictGet(song, "achievement")
        score == DictGet(song, "score")
        head == <<ToString(i) \o ". ", name>>
                  \o (IF ~IsNone(level) THEN <<" [", fmt_number(level, 1, ""), "]">> ELSE <<>>)
                  \o (IF best /\ ~IsNone(diff) THEN <<" (Diff ", PyStr(diff), ")">> ELSE <<>>)
        extra == (IF ~IsNone(achv) THEN <<<<"achv ", fmt_number(achv, 4, "%")>>>> ELSE <<>>)
                  \o (IF best /\ ~IsNone(score) THEN <<<<"score ", PyStr(score)>>>> ELSE <<>>)
                  \o (IF Truthy(score_rank) THEN <<<<"rank ", PyStr(score_rank)>>>> ELSE <<>>)
        RECURSIVE slash(_)
        slash(e) == IF Len(e) = 1 THEN e[1] ELSE e[1] \o <<" / ">> \o slash(Tail(e))
    IN  IF extra = <<>> THEN head ELSE head \o <<" | ">> \o slash(extra)

\* faulty variant: the whole list, no cap
Capped_nocap(songs, cap) == songs

\* the list shown: songs[:cap]
Capped(songs, cap) == SubSeq(songs, 1, IF Len(songs) < cap THEN Len(songs) ELSE cap)

ScoreCap == 3

SongSection(title, songs, best) ==
    IF songs = <<>> THEN <<>>
    ELSE <<<<>>, <<title>>>>
           \o [i \in 1..Len(Capped(songs, ScoreCap)) |-> SongLine(i, songs[i], best)]

\* a song list whose entries are not all dicts: song.get raises
BadSongs(songs) == \E i \in 1..Len(Capped(songs, ScoreCap)) : songs[i].k # "dict"

MaiLines(data, turbo_name) ==
    LET g(f) == DictGet(data, f)
        stats == PyOr(g("maiStatistics"), JDict(<<>>))
        play == PyOr(g("playActivity"), JDict(<<>>))
        best35 == PyOr(g("best35"), JList(<<>>)).l
        recent == PyOr(g("recentScores"), JList(<<>>)).l
        st(f) == DictGet(stats, f)
        pl(f) == DictGet(play, f)
    IN  <<<<"TurboNET user: ", PyStr(PyOr(g("turboName"), JStr(turbo_name)))>>,
          <<"maimai name: ", PyStr(PyOr(g("maimaiName"), JStr(<<"-">>)))>>>>
        \o Opt(Truthy(g("qqNumber")), <<"QQ: ", PyStr(g("qqNumber"))>>)
        \o Opt(~IsNone(g("isMe")), <<"is me: ", IF Truthy(g("isMe")) THEN "yes" ELSE "no">>)
        \o Opt(Truthy(g("permission")), <<"permission: ", PyStr(g("permission"))>>)
        \o Opt(Truthy(g("warningTimes")), <<"warnings: ", PyStr(g("warningTimes"))>>)
        \o Opt(Truthy(g("warningMessage")), <<"last warning: ", PyStr(g("warningMessage"))>>)
        \o Opt(Truthy(g("isBanned")),
               <<"banned (", PyStr(PyOr(g("bannedMessage"), JStr(<<"-">>))), ")">>)
        \o <<<<>>, <<"=== totals ===">>,                      \* "=== 综合数据 ==="
             <<"DX Rating: ", fmt_number(st("deluxRating"), 0, "")>>>>
        \o Opt(~IsNone(st("serverRanking")), <<"server rank: #", PyStr(st("serverRanking"))>>)
        \o Opt(~IsNone(st("averageAccuracy")),
               <<"average accuracy: ", fmt_number(st("averageAccuracy"), 2, "%")>>)
        \o Opt(~IsNone(st("maxCombo")), <<"max combo: ", PyStr(st("maxCombo"))>>)
        \o Opt(~IsNone(st("fullCombo")), <<"Full Combo: ", PyStr(st("fullCombo"))>>)
        \o Opt(~IsNone(st("allPerfect")), <<"All Perfect: ", PyStr(st("allPerfect"))>>)
        \o Opt(~IsNone(st("totalScores")), <<"total scores: ", PyStr(st("totalScores"))>>)
        \o <<<<>>, <<"=== play ===">>>>                       \* "=== 游玩情况 ==="
        \o Opt(~IsNone(pl("playCount")), <<"play count: ", PyStr(pl("playCount"))>>)
        \o Opt(~IsNone(pl("playTime")),
               <<"play time: ", fmt_number(pl("playTime"), 1, ""), " h">>)
        \o Opt(Truthy(pl("firstPlay")), <<"first play: ", PyStr(pl("firstPlay"))>>)
        \o Opt(Truthy(pl("lastPlay")),
               <<"last play: ", PyStr(pl("lastPlay"))>>
                 \o (IF Truthy(pl("playVersion"))
                     THEN <<" (version: ", PyStr(pl("playVersion")), ")">> ELSE <<>>))
        \o SongSection("=== Best 35 Top 3 ===", best35, TRUE)
        \o SongSection("=== recent Top 3 ===", recent, FALSE)

\* the values .get is called on that are not dicts, or lists sliced that are
\* not lists: AttributeError / TypeError leaves the handler
MaiShapeError(data) ==
    \/ data.k # "dict"
    \/ /\ data.k = "dict"
       /\ \/ PyOr(DictGet(data, "maiStatistics"), JDict(<<>>)).k # "dict"
          \/ PyOr(DictGet(data, "playActivity"), JDict(<<>>)).k # "dict"
          \/ PyOr(DictGet(data, "best35"), JList(<<>>)).k # "list"
          \/ PyOr(DictGet(data, "recentScores"), JList(<<>>)).k # "list"
          \/ /\ PyOr(DictGet(data, "best35"), JList(<<>>)).k = "list"
             /\ BadSongs(PyOr(DictGet(data, "best35"), JList(<<>>)).l)
          \/ /\ PyOr(DictGet(data, "recentScores"), JList(<<>>)).k = "list"
             /\ BadSongs(PyOr(DictGet(data, "recentScores"), JList(<<>>)).l)

MaiResume(tk0, resp) ==
    LET tk == Received(tk0, resp)
        data == resp.body.v
        turbo_name == (CHOOSE p \in tk.req.json : p[1] = "turboName")[2].s
    IN  IF Failed(resp) THEN Finish(tk, FailReply(resp, "request /web/user", "/web/user"))
        ELSE IF ~resp.body.valid THEN Finish(tk, MaiParseError)
        ELSE IF MaiShapeError(data) THEN Raise(tk, "AttributeError")
        ELSE Finish(tk, JoinLines(MaiLines(data, turbo_name)))

Songs ==
    { JDict([musicName |-> JStr(<<"A">>), level |-> JFloat(135), diff |-> JInt(3),
             scoreRank |-> JStr(<<"S">>), achievement |-> JFloat(1005), score |-> JInt(9)]),
      JDict(<<>>) }

\* the song numbered i
NumberedSong(i) == JDict([musicName |-> JStr(<<ToString(i)>>), level |-> JInt(i)])

ProfileBody(best, recent) ==
    Body(TRUE, "{\"turboName\": ...}", "{'turboName': ...}",
         JDict([turboName |-> JStr(<<"T">>), isMe |-> JBool(FALSE),
                maiStatistics |-> JDict([deluxRating |-> JInt(15000)]),
                best35 |-> JList(best), recentScores |-> recent]))

\* 200 bodies of POST /web/user
MaiBodies ==
    { NotJson, EmptyDict, EmptyList,
      Body(TRUE, "{\"best35\": [1]}", "{'best35': [1]}",
           JDict([best35 |-> JList(<<JInt(1)>>)])) }
        \cup {ProfileBody(b, r) : b \in SeqsUpTo(Songs, MaxList),
                                  r \in {JNull} \cup {JList(<<x>>) : x \in Songs}}
        \cup UNION { {ProfileBody(l, JNull), ProfileBody(<<>>, JList(l)),
                      ProfileBody(l, JList(l))} : l \in NumberedLists([i \in 1..MaxEntries |-> NumberedSong(i)]) }

handle_mai(t, u, arg, db) ==
    /\ tasks[t].pc = "idle"
    /\ tasks' = [tasks EXCEPT ![t] = MaiStart(New("mai", u, arg), user_bind, db)]
    /\ UNCHANGED <<user_bind, admin_env, last_set>>

mai_response(t, resp) ==
    /\ tasks[t].pc = "await" /\ tasks[t].cmd = "mai"
    /\ tasks' = [tasks EXCEPT ![t] = MaiResume(tasks[t], resp)]
    /\ UNCHANGED <<user_bind, admin_env, last_set>>

\* ------------------------------------------------------------- /mai_status
\* "解析网络状态返回内容失败。"
StatusParseError == <<"cannot parse network status response">>
\* "当前没有机厅状态数据。"
StatusNoData == <<"no arcade status data">>
\* "当前 TurboNET 机厅网络状态（最多显示前 5 条）："
StatusHeader == <<"TurboNET arcade network status (first 5):">>

\* status_translate of handle_status: 正常 / 警告 / 错误 / 未知
status_translate ==
    [WORKING |-> "normal", WARNING |-> "warning", ERROR |-> "error", UNKNOWN |-> "unknown"]

\* status_translate of handle_net: 工作中 / 警告 / 掉线啦！！！ / 未知
net_translate ==
    [WORKING |-> "working", WARNING |-> "warning", ERROR |-> "offline!!!",
     UNKNOWN |-> "unknown"]

\* faulty variant: a code outside the table is rendered as UNKNOWN is
Translate_nofallback(table, ws) == IF ws \in DOMAIN table THEN table[ws] ELSE table["UNKNOWN"]

\* table.get(ws, ws)
Translate(table, ws) == IF ws \in DOMAIN table THEN table[ws] ELSE ws

Unknown == <<"U", "N", "K", "N", "O", "W", "N">>

StatusCap == 5

\* f"- {name} [{atype}] 状态：{ws_cn}（最后心跳：{last}）"
StatusLine(arcade) ==
    LET name == PyStr(PyOr(DictGet(arcade, "arcadeName"), JStr(<<"?">>)))      \* "未知机厅"
        atype == PyStr(PyOr(DictGet(arcade, "arcadeType"), JStr(<<"?">>)))     \* "未知类型"
        ws == PyStr(PyOr(DictGet(arcade, "workingStatus"), JStr(Unknown)))
        last == PyStr(PyOr(DictGet(arcade, "lastHeartbeatSecond"), JStr(<<"?">>))) \* "未知时间"
    IN  <<"- ", name, " [", atype, "] status: ", Translate(status_translate, ws),
          " (last heartbeat: ", last, ")">>

StatusStart(tk, table, db) ==
    AuthThenSend(tk, table, db, tk.user, NotBound("query arcade network status"),
                 Req("GET", "/web/showNetworkStatus", {}, {}, {}))

StatusResume(tk0, resp) ==
    LET tk == Received(tk0, resp)
        data == resp.body.v
        shown == Capped(data.l, StatusCap)
    IN  IF Failed(resp)
        THEN Finish(tk, FailReply(resp, "request /web/showNetworkStatus",
                                  "/web/showNetworkStatus"))
        ELSE IF ~resp.body.valid THEN Finish(tk, StatusParseError)
        ELSE IF ~Truthy(data) THEN Finish(tk, StatusNoData)
        ELSE IF data.k # "list" THEN Raise(tk, "TypeError")
        ELSE IF \E i \in 1..Len(shown) : shown[i].k # "dict"
        THEN Raise(tk, "AttributeError")
        ELSE Finish(tk, JoinLines(<<StatusHeader>>
                                    \o [i \in 1..Len(shown) |-> StatusLine(shown[i])]))

\* workingStatus values: the four of the tables, one outside them, the empty one
StatusCodes ==
    << <<"W", "O", "R", "K", "I", "N", "G">>, <<"W", "A", "R", "N", "I", "N", "G">>,
       <<"E", "R", "R", "O", "R">>, Unknown, <<"P", "A", "U", "S", "E", "D">>, <<>> >>

\* the arcade numbered i
NumberedArcade(i) ==
    JDict([arcadeName |-> JStr(<<ToString(i)>>),
           workingStatus |-> JStr(StatusCodes[((i - 1) % Len(StatusCodes)) + 1])])

ArcadeStatuses ==
    { JDict([arcadeName |-> JStr(<<"F", "S">>), arcadeType |-> JStr(<<"T">>),
             workingStatus |-> JStr(<<"E", "R", "R", "O", "R">>),
             lastHeartbeatSecond |-> JStr(<<"9">>)]),
      JDict([workingStatus |-> JStr(<<"P", "A", "U", "S", "E", "D">>)]),
      JDict(<<>>) }

\* 200 bodies of GET /web/showNetworkStatus
StatusBodies ==
    { NotJson, EmptyDict,
      Body(TRUE, "null", "None", JNull),
      Body(TRUE, "{\"a\": 1}", "{'a': 1}", JDict([a |-> JInt(1)])),
      Body(TRUE, "[1]", "[1]", JList(<<JInt(1)>>)) }
        \cup {Body(TRUE, "[...]", "[...]", JList(l)) : l \in SeqsUpTo(ArcadeStatuses, MaxList)}
        \cup {Body(TRUE, "[...]", "[...]", JList(l)) : l \in NumberedLists([i \in 1..MaxEntries |-> NumberedArcade(i)])}

handle_status(t, u, db) ==
    /\ tasks[t].pc = "idle"
    /\ tasks' = [tasks EXCEPT ![t] = StatusStart(New("mai_status", u, <<>>), user_bind, db)]
    /\ UNCHANGED <<user_bind, admin_env, last_set>>

status_response(t, resp) ==
    /\ tasks[t].pc = "await" /\ tasks[t].cmd = "mai_status"
    /\ tasks' = [tasks EXCEPT ![t] = StatusResume(tasks[t], resp)]
    /\ UNCHANGED <<user_bind, admin_env, last_set>>

\* ------------------------------------------------ /run /go /norun /getrun
\* "用法：/run X\n例如：/run 2 或 /run 3"
RunUsage == <<"usage: /run X">>
\* "跑图卷倍率必须是整数，例如 /run 2。"
RunNotInt == <<"ticket multiplier must be an integer, e.g. /run 2">>
\* f"绑定{ticket_id}倍跑图卷成功"
RunOk(ticket_id) == <<"bound ", ToString(ticket_id), "x ticket ok">>
\* "绑定6倍跑图卷成功"
GoOk == <<"bound ", "6", "x ticket ok">>
\* "取消跑图卷成功"
NorunOk == <<"ticket cancelled">>
\* "解析跑图卷信息返回内容失败。"
GetrunParseError == <<"cannot parse ticket response">>
\* "当前未启用跑图卷"
GetrunDisabled == <<"no ticket enabled">>
\* f"当前跑图卷倍率为{_to_int(ticket_id)}"
GetrunOk(n) == <<"current ticket multiplier is ", ToString(n)>>

SetTickets(ticket_id) ==
    Req("POST", "/web/setTickets", {}, {<<"ticketId", JInt(ticket_id)>>}, {})

\* faulty variant: a token int() refuses is sent as ticket 0
RunStart_nointcheck(tk0, table, db) ==
    IF ~db THEN Raise(tk0, DbError)
    ELSE LET tk == WithHeaders(tk0, table, tk0.user)
             text == Strip(tk.arg)
             tok == FirstToken(text)
         IN  IF tk.headers = {} THEN Finish(tk, NotBound("set ticket"))
             ELSE IF text = <<>> THEN Finish(tk, RunUsage)
             ELSE Send(tk, [SetTickets(IF IsIntLiteral(tok) THEN IntOfStr(tok) ELSE 0)
                                EXCEPT !.headers = tk.headers])

\* handle_run up to the request: the binding is checked before the argument
RunStart(tk0, table, db) ==
    IF ~db THEN Raise(tk0, DbError)
    ELSE LET tk == WithHeaders(tk0, table, tk0.user)
             text == Strip(tk.arg)
         IN  IF tk.headers = {} THEN Finish(tk, NotBound("set ticket"))
             ELSE IF text = <<>> THEN Finish(tk, RunUsage)
             ELSE IF ~IsIntLiteral(FirstToken(text)) THEN Finish(tk, RunNotInt)
             ELSE Send(tk, [SetTickets(IntOfStr(FirstToken(text)))
                                EXCEPT !.headers = tk.headers])

TicketOf(req) == (CHOOSE p \in req.json : p[1] = "ticketId")[2].n

RunResume(tk0, resp) ==
    LET tk == Received(tk0, resp)
    IN  IF Failed(resp) THEN Finish(tk, FailReply(resp, "set ticket", "/web/setTickets"))
        ELSE Finish(tk, RunOk(TicketOf(tk.req)))

\* faulty variant: /go sets ticket 5
GoStart_five(tk, table, db) ==
    AuthThenSend(tk, table, db, tk.user, NotBound("set ticket"), SetTickets(5))

GoStart(tk, table, db) ==
    AuthThenSend(tk, table, db, tk.user, NotBound("set ticket"), SetTickets(6))

GoResume(tk0, resp) ==
    LET tk == Received(tk0, resp)
    IN  IF Failed(resp) THEN Finish(tk, FailReply(resp, "set ticket", "/web/setTickets"))
        ELSE Finish(tk, GoOk)

NorunStart(tk, table, db) ==
    AuthThenSend(tk, table, db, tk.user, NotBound("cancel ticket"),
                 Req("POST", "/web/resetTickets", {}, {}, {}))

NorunResume(tk0, resp) ==
    LET tk == Received(tk0, resp)
    IN  IF Failed(resp)
        THEN Finish(tk, FailReply(resp, "cancel ticket", "/web/resetTickets"))
        ELSE Finish(tk, NorunOk)

GetrunStart(tk, table, db) ==
    AuthThenSend(tk, table, db, tk.user, NotBound("view ticket"),
                 Req("GET", "/web/currentTickets", {}, {}, {}))

GetrunResume(tk0, resp) ==
    LET tk == Received(tk0, resp)
        data == resp.body.v
        turbo_ticket == PyOr(DictGet(data, "turboTicket"), JDict(<<>>))
        is_enable == DictGet(turbo_ticket, "isEnable")
        ticket_id == DictGet(turbo_ticket, "ticketId")
    IN  IF Failed(resp)
        THEN Finish(tk, FailReply(resp, "get ticket", "/web/currentTickets"))
        ELSE IF ~resp.body.valid THEN Finish(tk, GetrunParseError)
        ELSE IF data.k # "dict" THEN Raise(tk, "AttributeError")
        ELSE IF turbo_ticket.k # "dict" THEN Raise(tk, "AttributeError")
        ELSE IF ~Truthy(is_enable) \/ IsNone(ticket_id) THEN Finish(tk, GetrunDisabled)
        ELSE IF ToIntRaises(ticket_id) THEN Raise(tk, "OverflowError")
        ELSE Finish(tk, GetrunOk(ToInt(ticket_id, 0)))

\* values of isEnable and ticketId in a 200 body of GET /web/currentTickets
EnableValues == {JNull, JBool(FALSE), JBool(TRUE), JInt(0), JStr(<<"n", "o">>)}
TicketIdValues ==
    { JNull, JInt(3), JInt(0), JStr(<<"3">>), JStr(<<"-", "6">>), JStr(<<"a", "b", "c">>),
      JStr(<<"3", ".", "5">>), JFloat(39), JFloat(-39), JBool(TRUE), JNaN, JInf,
      JList(<<JInt(3)>>) }

TicketBody(tt) == Body(TRUE, "{\"turboTicket\": ...}", "{'turboTicket': ...}",
                       JDict([turboTicket |-> tt]))

GetrunBodies ==
    { NotJson, EmptyDict, EmptyList, TicketBody(JNull), TicketBody(JStr(<<"o", "n">>)),
      TicketBody(JDict(<<>>)) }
        \cup {TicketBody(JDict([isEnable |-> e, ticketId |-> i])) :
                  e \in EnableValues, i \in TicketIdValues}

\* 200 bodies of POST /web/setTickets and POST /web/resetTickets (not read)
PlainBodies == {NotJson, EmptyDict}

handle_run(t, u, arg, db) ==
    /\ tasks[t].pc = "idle"
    /\ tasks' = [tasks EXCEPT ![t] = RunStart(New("run", u, arg), user_bind, db)]
    /\ UNCHANGED <<user_bind, admin_env, last_set>>

run_response(t, resp) ==
    /\ tasks[t].pc = "await" /\ tasks[t].cmd = "run"
    /\ tasks' = [tasks EXCEPT ![t] = RunResume(tasks[t], resp)]
    /\ UNCHANGED <<user_bind, admin_env, last_set>>

handle_go(t, u, db) ==
    /\ tasks[t].pc = "idle"
    /\ tasks' = [tasks EXCEPT ![t] = GoStart(New("go", u, <<>>), user_bind, db)]
    /\ UNCHANGED <<user_bind, admin_env, last_set>>

go_response(t, resp) ==
    /\ tasks[t].pc = "await" /\ tasks[t].cmd = "go"
    /\ tasks' = [tasks EXCEPT ![t] = GoResume(tasks[t], resp)]
    /\ UNCHANGED <<user_bind, admin_env, last_set>>

handle_norun(t, u, db) ==
    /\ tasks[t].pc = "idle"
    /\ tasks' = [tasks EXCEPT ![t] = NorunStart(New("norun", u, <<>>), user_bind, db)]
    /\ UNCHANGED <<user_bind, admin_env, last_set>>

norun_response(t, resp) ==
    /\ tasks[t].pc = "await" /\ tasks[t].cmd = "norun"
    /\ tasks' = [tasks EXCEPT ![t] = NorunResume(tasks[t], resp)]
    /\ UNCHANGED <<user_bind, admin_env, last_set>>

handle_getrun(t, u, db) ==
    /\ tasks[t].pc = "idle"
    /\ tasks' = [tasks EXCEPT ![t] = GetrunStart(New("getrun", u, <<>>), user_bind, db)]
    /\ UNCHANGED <<user_bind, admin_env, last_set>>

getrun_response(t, resp) ==
    /\ tasks[t].pc = "await" /\ tasks[t].cmd = "getrun"
    /\ tasks' = [tasks EXCEPT ![t] = GetrunResume(tasks[t], resp)]
    /\ UNCHANGED <<user_bind, admin_env, last_set>>

\* ------------------------------------------ <arcade code>j  and  /net
\* characters of a raw message text
TextChars == {"/", "f", "j", " ", "\n"}
Texts == SeqsUpTo(TextChars, MaxArgLen)

\* on_regex(r"^(?!/)(\S+)j$"): the groups of the match, <<>> if no match.
\* Without re.MULTILINE, "$" matches at the end of the text and also just
\* before a newline that ends the text.
RegexGroup(text) ==
    LET n == IF text # <<>> /\ text[Len(text)] = "\n" THEN Len(text) - 1
             ELSE Len(text)
    IN  IF /\ n >= 2
           /\ \A i \in 1..n : ~IsSpace(text[i])
           /\ text[1] # "/"
           /\ text[n] = "j"
        THEN <<SubSeq(text, 1, n - 1)>>
        ELSE <<>>

\* "解析机厅详情返回内容失败。"
ArcadeParseError == <<"cannot parse arcade detail response">>

\* faulty variant: the headers of the sender instead of the administrator
AdminThenSend_sender(tk0, table, db, env, unbound, req) ==
    IF ~env.set THEN Raise(tk0, "AttributeError")
    ELSE LET admin_qq == Strip(env.val)
         IN  IF admin_qq = <<>> THEN Finish(tk0, AdminNotConfigured)
             ELSE AuthThenSend(tk0, table, db, tk0.user, unbound, req)

\* os.getenv("SYSALLNET_ADMIN_QQ").strip(), then the admin's headers and the
\* request; an unset variable is None, and None.strip() raises
AdminThenSend(tk0, table, db, env, unbound, req) ==
    IF ~env.set THEN Raise(tk0, "AttributeError")
    ELSE LET admin_qq == Strip(env.val)
         IN  IF admin_qq = <<>> THEN Finish(tk0, AdminNotConfigured)
             ELSE AuthThenSend(tk0, table, db, admin_qq, unbound, req)

ArcadeStart(tk, table, db, env) ==
    LET arcade_code == RegexGroup(tk.arg)[1]
    IN  AdminThenSend(tk, table, db, env, AdminNotBound("query arcade detail"),
            Req("GET", "/web/arcadeInfoDetail", {<<"arcadeName", Cat(arcade_code)>>},
                {}, {}))

\* f"{name} 上机时间{playdate}"
PlayerLine(p) ==
    <<PyStr(PyOr(DictGet(p, "maimaiName"), JStr(<<"?">>))),              \* "未知玩家"
      " joined at ", PyStr(PyOr(DictGet(p, "playdate"), JStr(<<>>)))>>

\* faulty variant: the roster cut to its first five players
ArcadeLines_capped(data, arcade_code) ==
    LET arcade_info == PyOr(DictGet(data, "arcadeInfo"), JDict(<<>>))
        player_list == Capped(PyOr(DictGet(data, "playerList"), JList(<<>>)).l, StatusCap)
        n(v) == ToString(ToInt(v, 0))
    IN  <<<<PyStr(PyOr(DictGet(arcade_info, "arcadeName"), JStr(arcade_code)))>>,
          <<"plays in 30 min: ", n(DictGet(data, "thirtyMinutesPlayer")), "PC">>,
          <<"plays in 1 h: ", n(DictGet(data, "oneHourPlayer")), "PC">>,
          <<"plays in 2 h: ", n(DictGet(data, "twoHoursPlayer")), "PC">>,
          <<"plays today: ", n(DictGet(arcade_info, "arcadePlayCount")), "PC">>,
          <<"players in the arcade:">>>>                 \* "当前店内玩家列表："
        \o (IF player_list = <<>> THEN <<<<"none">>>>    \* "暂无"
            ELSE [i \in 1..Len(player_list) |-> PlayerLine(player_list[i])])
        \o <<<<"network: requests ", n(DictGet(arcade_info, "arcadeRequested")),
               ", cache hits ", n(DictGet(arcade_info, "arcadeCachedRequest")),
               ", fixes ", n(DictGet(arcade_info, "arcadeFixedRequest"))>>>>

ArcadeLines(data, arcade_code) ==
    LET arcade_info == PyOr(DictGet(data, "arcadeInfo"), JDict(<<>>))
        player_list == PyOr(DictGet(data, "playerList"), JList(<<>>)).l
        n(v) == ToString(ToInt(v, 0))
    IN  <<<<PyStr(PyOr(DictGet(arcade_info, "arcadeName"), JStr(arcade_code)))>>,
          <<"plays in 30 min: ", n(DictGet(data, "thirtyMinutesPlayer")), "PC">>,
          <<"plays in 1 h: ", n(DictGet(data, "oneHourPlayer")), "PC">>,
          <<"plays in 2 h: ", n(DictGet(data, "twoHoursPlayer")), "PC">>,
          <<"plays today: ", n(DictGet(arcade_info, "arcadePlayCount")), "PC">>,
          <<"players in the arcade:">>>>                 \* "当前店内玩家列表："
        \o (IF player_list = <<>> THEN <<<<"none">>>>    \* "暂无"
            ELSE [i \in 1..Len(player_list) |-> PlayerLine(player_list[i])])
        \o <<<<"network: requests ", n(DictGet(arcade_info, "arcadeRequested")),
               ", cache hits ", n(DictGet(arcade_info, "arcadeCachedRequest")),
               ", fixes ", n(DictGet(arcade_info, "arcadeFixedRequest"))>>>>

ArcadeShapeError(data) ==
    \/ data.k # "dict"
    \/ /\ data.k = "dict"
       /\ \/ PyOr(DictGet(data, "arcadeInfo"), JDict(<<>>)).k # "dict"
          \/ PyOr(DictGet(data, "playerList"), JList(<<>>)).k # "list"
          \/ /\ PyOr(DictGet(data, "playerList"), JList(<<>>)).k = "list"
             /\ \E i \in 1..Len(PyOr(DictGet(data, "playerList"), JList(<<>>)).l) :
                    PyOr(DictGet(data, "playerList"), JList(<<>>)).l[i].k # "dict"

\* one of the seven _to_int calls meets a value int() overflows on
ArcadeOverflow(data) ==
    LET arcade_info == PyOr(DictGet(data, "arcadeInfo"), JDict(<<>>))
    IN  \/ \E f \in {"thirtyMinutesPlayer", "oneHourPlayer", "twoHoursPlayer"} :
               ToIntRaises(DictGet(data, f))
        \/ \E f \in {"arcadePlayCount", "arcadeRequested", "arcadeCachedRequest",
                     "arcadeFixedRequest"} : ToIntRaises(DictGet(arcade_info, f))

ArcadeResume(tk0, resp) ==
    LET tk == Received(tk0, resp)
        data == resp.body.v
        arcade_code == RegexGroup(tk.arg)[1]
    IN  IF Failed(resp)
        THEN Finish(tk, FailReply(resp, "request /web/arcadeInfoDetail",
                                  "/web/arcadeInfoDetail"))
        ELSE IF ~resp.body.valid THEN Finish(tk, ArcadeParseError)
        ELSE IF data.k # "dict" THEN Raise(tk, "AttributeError")
        ELSE IF PyOr(DictGet(data, "arcadeInfo"), JDict(<<>>)).k # "dict"
        THEN Raise(tk, "AttributeError")
        ELSE IF ArcadeOverflow(data) THEN Raise(tk, "OverflowError")
        ELSE IF ArcadeShapeError(data) THEN Raise(tk, "AttributeError")
        ELSE Finish(tk, JoinLines(ArcadeLines(data, arcade_code)))

Players ==
    { JDict([maimaiName |-> JStr(<<"P">>), playdate |-> JStr(<<"8">>)]), JDict(<<>>) }

\* the player numbered i
NumberedPlayer(i) == JDict([maimaiName |-> JStr(<<ToString(i)>>), playdate |-> JStr(<<"8">>)])

DetailBody(info, thirty, players) ==
    Body(TRUE, "{\"arcadeInfo\": ...}", "{'arcadeInfo': ...}",
         JDict([arcadeInfo |-> info, thirtyMinutesPlayer |-> thirty,
                twoHoursPlayer |-> JInt(1), playerList |-> players]))

ArcadeInfos ==
    { JNull,
      JDict([arcadeName |-> JStr(<<"F", "S">>), arcadePlayCount |-> JInt(1),
             arcadeRequested |-> JStr(<<"7", "8">>), arcadeCachedRequest |-> JFloat(339)]) }

\* 200 bodies of GET /web/arcadeInfoDetail
ArcadeBodies ==
    { NotJson, EmptyDict, EmptyList,
      DetailBody(JStr(<<"F", "S">>), JInt(0), JNull),
      DetailBody(JNull, JInf, JNull),
      DetailBody(JNull, JInt(0), JList(<<JInt(1)>>)) }
        \cup {DetailBody(i, JInt(0), p) :
                  i \in ArcadeInfos,
                  p \in {JNull} \cup {JList(l) : l \in SeqsUpTo(Players, MaxList)}}
        \cup {DetailBody(JNull, JInt(0), JList(l)) : l \in NumberedLists([i \in 1..MaxEntries |-> NumberedPlayer(i)])}

handle_arcade_detail(t, u, text, db) ==
    /\ tasks[t].pc = "idle"
    /\ RegexGroup(text) # <<>>
    /\ tasks' = [tasks EXCEPT ![t] =
                     ArcadeStart(New("arcade", u, text), user_bind, db, admin_env)]
    /\ UNCHANGED <<user_bind, admin_env, last_set>>

arcade_response(t, resp) ==
    /\ tasks[t].pc = "await" /\ tasks[t].cmd = "arcade"
    /\ tasks' = [tasks EXCEPT ![t] = ArcadeResume(tasks[t], resp)]
    /\ UNCHANGED <<user_bind, admin_env, last_set>>

\* f"{idx}.{name} 状态：{ws_cn} 最后返回心跳包时间：{last}"
NetLine(idx, arcade) ==
    LET name == PyStr(PyOr(DictGet(arcade, "arcadeName"), JStr(<<"?">>)))      \* "未知机厅"
        ws == PyStr(PyOr(DictGet(arcade, "workingStatus"), JStr(Unknown)))
        last == PyStr(PyOr(DictGet(arcade, "lastHeartbeatSecond"), JStr(<<"?">>))) \* "未知时间"
    IN  <<ToString(idx), ".", name, " status: ", Translate(net_translate, ws),
          " last heartbeat at: ", last>>

NetStart(tk, table, db, env) ==
    AdminThenSend(tk, table, db, env, AdminNotBound("query network status"),
                  Req("GET", "/web/showNetworkStatus", {}, {}, {}))

\* handle_net after the response: no except clause, resp.raise_for_status()
NetResume(tk0, resp) ==
    LET tk == Received(tk0, resp)
        data == resp.body.v
    IN  IF resp.kind = "transport" THEN Raise(tk, "httpx.RequestError")
        ELSE IF resp.status # 200 THEN Raise(tk, "httpx.HTTPStatusError")
        ELSE IF ~resp.body.valid THEN Raise(tk, "json.JSONDecodeError")
        ELSE IF data.k = "dict" /\ DOMAIN data.d = {} THEN Finish(tk, <<>>)
        ELSE IF data.k = "dict" THEN Raise(tk, "AttributeError")
        ELSE IF data.k # "list" THEN Raise(tk, "TypeError")
        ELSE IF \E i \in 1..Len(data.l) : data.l[i].k # "dict"
        THEN Raise(tk, "AttributeError")
        ELSE Finish(tk, JoinLines([i \in 1..Len(data.l) |-> NetLine(i, data.l[i])]))

handle_net(t, u, db) ==
    /\ tasks[t].pc = "idle"
    /\ tasks' = [tasks EXCEPT ![t] = NetStart(New("net", u, <<>>), user_bind, db, admin_env)]
    /\ UNCHANGED <<user_bind, admin_env, last_set>>

net_response(t, resp) ==
    /\ tasks[t].pc = "await" /\ tasks[t].cmd = "net"
    /\ tasks' = [tasks EXCEPT ![t] = NetResume(tasks[t], resp)]
    /\ UNCHANGED <<user_bind, admin_env, last_set>>

\* the platform dispatches the next message to a finished slot
Reset(t) ==
    /\ tasks[t].pc = "done"
    /\ tasks' = [tasks EXCEPT ![t] = Idle]
    /\ UNCHANGED <<user_bind, admin_env, last_set>>

Init ==
    /\ user_bind = {}
    /\ admin_env \in AdminEnvs
    /\ tasks = [t \in TaskIds |-> Idle]
    /\ last_set = [u \in Users |-> ""]

Next ==
    \/ \E u \in Users, a \in Words : handle_bind("t1", u, a)
    \/ \E r \in Answers(BindBodies), db \in BOOLEAN : bind_response("t1", r, db)
    \/ \E u \in Users, a \in Words, db \in BOOLEAN : handle_mai("t1", u, a, db)
    \/ \E r \in Answers(MaiBodies) : mai_response("t1", r)
    \/ \E u \in Users, db \in BOOLEAN : handle_status("t1", u, db)
    \/ \E r \in Answers(StatusBodies) : status_response("t1", r)
    \/ \E u \in Users, a \in Args, db \in BOOLEAN : handle_run("t1", u, a, db)
    \/ \E r \in Answers(PlainBodies) : run_response("t1", r)
    \/ \E u \in Users, db \in BOOLEAN : handle_go("t1", u, db)
    \/ \E r \in Answers(PlainBodies) : go_response("t1", r)
    \/ \E u \in Users, db \in BOOLEAN : handle_norun("t1", u, db)
    \/ \E r \in Answers(PlainBodies) : norun_response("t1", r)
    \/ \E u \in Users, db \in BOOLEAN : handle_getrun("t1", u, db)
    \/ \E r \in Answers(GetrunBodies) : getrun_response("t1", r)
    \/ \E u \in Users, x \in Texts, db \in BOOLEAN : handle_arcade_detail("t1", u, x, db)
    \/ \E r \in Answers(ArcadeBodies) : arcade_response("t1", r)
    \/ \E u \in Users, db \in BOOLEAN : handle_net("t1", u, db)
    \/ \E r \in Answers(StatusBodies) : net_response("t1", r)
    \/ Reset("t1")

Spec == Init /\ [][Next]_vars

\* ------------------------------------------------- concurrent invocations
\* Several handlers in flight at once, each suspended at its HTTP call, over a
\* smaller choice of arguments and answers.
ConcAnswers(ok) ==
    {TransportError, Http(500, NotJson)} \cup {Http(200, b) : b \in ok}

ConcBindBodies == {EmptyDict} \cup {KeyBody(k, JNull) : k \in Keys}
ConcListBodies == {EmptyList, Body(TRUE, "[...]", "[...]", JList(<<JDict(<<>>)>>))}
ConcTicketBodies ==
    {TicketBody(JDict([isEnable |-> JBool(TRUE), ticketId |-> JStr(<<"3">>)]))}
ConcArcadeBodies == {DetailBody(JNull, JInt(0), JNull)}
ConcWord == <<"x">>
ConcArgs == {<<"6">>, <<"-", "2">>}
ConcTexts == {<<"f", "j">>, <<"j", "j">>}

NextConc ==
    \/ \E t \in TaskIds, u \in Users : handle_bind(t, u, ConcWord)
    \/ \E t \in TaskIds, r \in ConcAnswers(ConcBindBodies), db \in BOOLEAN :
           bind_response(t, r, db)
    \/ \E t \in TaskIds, u \in Users, db \in BOOLEAN : handle_mai(t, u, ConcWord, db)
    \/ \E t \in TaskIds, r \in ConcAnswers({EmptyDict}) : mai_response(t, r)
    \/ \E t \in TaskIds, u \in Users, db \in BOOLEAN : handle_status(t, u, db)
    \/ \E t \in TaskIds, r \in ConcAnswers(ConcListBodies) : status_response(t, r)
    \/ \E t \in TaskIds, u \in Users, a \in ConcArgs, db \in BOOLEAN : handle_run(t, u, a, db)
    \/ \E t \in TaskIds, r \in ConcAnswers({EmptyDict}) : run_response(t, r)
    \/ \E t \in TaskIds, u \in Users, db \in BOOLEAN : handle_go(t, u, db)
    \/ \E t \in TaskIds, r \in ConcAnswers({EmptyDict}) : go_response(t, r)
    \/ \E t \in TaskIds, u \in Users, db \in BOOLEAN : handle_norun(t, u, db)
    \/ \E t \in TaskIds, r \in ConcAnswers({EmptyDict}) : norun_response(t, r)
    \/ \E t \in TaskIds, u \in Users, db \in BOOLEAN : handle_getrun(t, u, db)
    \/ \E t \in TaskIds, r \in ConcAnswers(ConcTicketBodies) : getrun_response(t, r)
    \/ \E t \in TaskIds, u \in Users, x \in ConcTexts, db \in BOOLEAN :
           handle_arcade_detail(t, u, x, db)
    \/ \E t \in TaskIds, r \in ConcAnswers(ConcArcadeBodies) : arcade_response(t, r)
    \/ \E t \in TaskIds, u \in Users, db \in BOOLEAN : handle_net(t, u, db)
    \/ \E t \in TaskIds, r \in ConcAnswers(ConcListBodies) : net_response(t, r)
    \/ \E t \in TaskIds : Reset(t)

SpecConc == Init /\ [][NextConc]_vars

\* ================================================================ claims
UserCmds == {"mai", "mai_status", "run", "go", "norun", "getrun"}
AdminCmds == {"arcade", "net"}

\* the QQ whose botKey a handler authenticates with
AuthIdentity(tk) == IF tk.cmd \in AdminCmds THEN Strip(admin_env.val) ELSE tk.user

\* the user was never bound: no set was ever executed for it
NeverBound(u) == last_set[u] = ""

\* the "please bind first" reply of each handler
UnboundReply(cmd) ==
    CASE cmd = "mai" -> NotBound("query")
      [] cmd = "mai_status" -> NotBound("query arcade network status")
      [] cmd \in {"run", "go"} -> NotBound("set ticket")
      [] cmd = "norun" -> NotBound("cancel ticket")
      [] cmd = "getrun" -> NotBound("view ticket")
      [] cmd = "arcade" -> AdminNotBound("query arcade detail")
      [] cmd = "net" -> AdminNotBound("query network status")
      [] OTHER -> <<>>

\* C1: every request of a command other than bind carries exactly the header
\* Authorization: "BotKey <k>" where k is a non-empty bot_key that the table
\* held for the authenticating QQ when the headers were built.
C1_RequestsCarryStoredKey ==
    \A t \in TaskIds :
        LET tk == tasks[t]
        IN  (tk.cmd # "bind" /\ tk.nreq > 0) =>
                \E r \in tk.seen :
                    /\ r.qq_id = AuthIdentity(tk)
                    /\ r.bot_key # ""
                    /\ tk.req.headers = {<<"Authorization", "BotKey " \o r.bot_key>>}

C1_Witness ==
    \E t1, t2 \in TaskIds :
        /\ tasks[t1].cmd = "run" /\ tasks[t1].nreq = 1
        /\ tasks[t2].cmd = "net" /\ tasks[t2].nreq = 1
        /\ tasks[t2].user # AuthIdentity(tasks[t2])

\* C2 as stated: a never-bound user gets empty headers, and whatever command
\* other than bind it invokes makes no request and answers "please bind first".
C2_Original ==
    \A t \in TaskIds :
        LET tk == tasks[t]
        IN  (tk.cmd \in UserCmds \cup AdminCmds /\ NeverBound(tk.user)) =>
                /\ build_auth_headers(user_bind, tk.user) = {}
                /\ tk.nreq = 0
                /\ (tk.pc = "done" /\ tk.exc = "") => tk.reply = UnboundReply(tk.cmd)

\* C2 amended: a never-bound user gets empty headers; mai, mai_status, run, go,
\* norun and getrun invoked by it issue no request, and the only message they
\* send is "please bind first" (for /mai without an argument, the usage text).
C2_UnboundUserCommands ==
    \A t \in TaskIds :
        LET tk == tasks[t]
        IN  (tk.cmd \in UserCmds /\ NeverBound(tk.user)) =>
                /\ build_auth_headers(user_bind, tk.user) = {}
                /\ tk.nreq = 0 /\ tk.pc # "await"
                /\ tk.nreply = 1 =>
                       \/ tk.reply = UnboundReply(tk.cmd)
                       \/ tk.cmd = "mai" /\ Strip(tk.arg) = <<>> /\ tk.reply = MaiUsage

C2_Witness ==
    \E t \in TaskIds :
        /\ tasks[t].cmd = "run" /\ NeverBound(tasks[t].user)
        /\ tasks[t].arg = <<"6">>
        /\ tasks[t].reply = NotBound("set ticket")
        /\ \E u \in Users : ~NeverBound(u)

\* the table rows of the configured administrator
AdminRows(table) == {r \in table : r.qq_id = Strip(admin_env.val)}

\* C3: two invocations of the same administrator command (net, or arcade detail
\* with the same text) that met the same administrator row and the same
\* database availability built the same headers and issued the same request,
\* whoever sent them and whatever that sender has bound; given the same
\* response they end with the same reply (or the same exception).
C3_AdminCredentialOnly ==
    \A t1, t2 \in TaskIds :
        LET a == tasks[t1]
            b == tasks[t2]
        IN  ( /\ a.cmd \in AdminCmds /\ b.cmd = a.cmd /\ b.arg = a.arg
              /\ AdminRows(a.seen) = AdminRows(b.seen)
              /\ (a.exc = DbError) = (b.exc = DbError) ) =>
                /\ a.headers = b.headers
                /\ a.req = b.req /\ a.nreq = b.nreq
                /\ (a.pc = "done" /\ b.pc = "done" /\ a.resp = b.resp) =>
                       (a.reply = b.reply /\ a.nreply = b.nreply /\ a.exc = b.exc)

C3_Witness ==
    \E t1, t2 \in TaskIds :
        LET a == tasks[t1]
            b == tasks[t2]
        IN  /\ a.cmd = "net" /\ b.cmd = "net" /\ a.user # b.user
            /\ build_auth_headers(a.seen, a.user) # build_auth_headers(b.seen, b.user)
            /\ build_auth_headers(b.seen, b.user) = {}
            /\ a.pc = "done" /\ b.pc = "done"
            /\ a.resp = b.resp /\ a.resp.kind = "http" /\ a.resp.status = 200
            /\ a.nreply = 1 /\ a.reply # <<>>

\* C4: a step changes the table only when a bind handler receives a 200
\* response whose parsed body has a non-empty botKey, and then the table is the
\* old one with exactly the sender's row set to that botKey; no row is ever
\* removed.
C4_StoreChangesOnlyAtSuccessfulBind ==
    [][ /\ \A r \in user_bind : \E r2 \in user_bind' : r2.qq_id = r.qq_id
        /\ user_bind' # user_bind =>
               \E t \in TaskIds :
                   LET tk == tasks'[t]
                       key == DictGet(tk.resp.body.v, "botKey")
                   IN  /\ tasks[t].cmd = "bind" /\ tasks[t].pc = "await"
                       /\ tk.pc = "done" /\ tk.nreply = 1
                       /\ tk.resp.kind = "http" /\ tk.resp.status = 200
                       /\ tk.resp.body.valid /\ tk.resp.body.v.k = "dict"
                       /\ key.k = "str" /\ key.s # <<>>
                       /\ user_bind' = {r \in user_bind : r.qq_id # tk.user}
                                           \cup {Row(tk.user, Cat(key.s))}
      ]_vars

C4_Witness ==
    \E t \in TaskIds :
        /\ tasks[t].cmd = "bind" /\ tasks[t].pc = "done" /\ tasks[t].nreply = 1
        /\ tasks[t].resp.status = 200
        /\ Row(tasks[t].user, "q") \in user_bind
        /\ Cardinality(user_bind) = 2

\* C5: the table holds at most one row per QQ, get returns the bot_key of the
\* last executed set for that QQ (nothing if there was none), and no set is
\* refused by the table's primary key.
C5_LastWriteWins ==
    /\ \A u \in Users : Cardinality({r \in user_bind : r.qq_id = u}) <= 1
    /\ \A u \in Users :
           get_user_bot_key(user_bind, u) =
               [found |-> last_set[u] # "", key |-> last_set[u]]
    /\ \A t \in TaskIds : tasks[t].exc # "pyodbc.IntegrityError"

C5_Witness ==
    \E t1, t2 \in TaskIds :
        LET a == tasks[t1]
            b == tasks[t2]
        IN  /\ t1 # t2 /\ a.cmd = "bind" /\ b.cmd = "bind" /\ a.user = b.user
            /\ a.pc = "done" /\ b.pc = "done" /\ a.nreply = 1 /\ b.nreply = 1
            /\ a.resp.status = 200 /\ b.resp.status = 200
            /\ DictGet(a.resp.body.v, "botKey") = JStr(<<"k">>)
            /\ DictGet(b.resp.body.v, "botKey") = JStr(<<"q">>)
            /\ last_set[a.user] = "k"

\* C6 as stated: every finished invocation sent exactly one reply, no
\* exception left the handler, and at most one request was made.
C6_ExactlyOneReply ==
    \A t \in TaskIds :
        tasks[t].pc = "done" =>
            (tasks[t].nreply = 1 /\ tasks[t].exc = "" /\ tasks[t].nreq <= 1)

Contains(reply, part) == \E i \in 1..Len(reply) : reply[i] = part

\* the success output of a handler given its request and a 200 response
IsErrorReply(tk) ==
    \E i \in 1..Len(tk.reply) : tk.reply[i] = "): " /\ i > 1 /\
                                tk.reply[i - 1] = ToString(tk.resp.status)

\* C7 as stated: a finished invocation whose response had a status other than
\* 200 sent one reply, which is the error text with the status code, carrying
\* the body's message field when the body is a JSON object with a non-empty
\* message, and the raw text when the body is not JSON.
C7_Non200IsApiError ==
    \A t \in TaskIds :
        LET tk == tasks[t]
            body == tk.resp.body
        IN  (tk.pc = "done" /\ tk.resp.kind = "http" /\ tk.resp.status # 200) =>
                /\ tk.nreply = 1 /\ tk.exc = ""
                /\ IsErrorReply(tk)
                /\ (body.valid /\ body.v.k = "dict" /\ Truthy(DictGet(body.v, "message")))
                       => Contains(tk.reply, PyStr(DictGet(body.v, "message")))
                /\ ~body.valid => Contains(tk.reply, body.text)

\* the integer a /run argument denotes: optional sign, then decimal digits
SignedDigits(tok) ==
    LET d == IF tok # <<>> /\ tok[1] \in {"+", "-"} THEN Tail(tok) ELSE tok
    IN  d # <<>> /\ \A i \in 1..Len(d) : d[i] \in Digits

\* C8: a /run that issued a request issued exactly one, POST /web/setTickets
\* with body {"ticketId": n} for the integer n its argument is the decimal
\* form of, and on 200
\* replied "bound n x ticket ok"; a /go and a /run 6 by the same user that met
\* the same table and database availability have the same headers and request,
\* and given the same response the same reply.
C8_RunAndGo ==
    /\ \A t \in TaskIds :
           LET tk == tasks[t]
               tok == FirstToken(Strip(tk.arg))
           IN  (tk.cmd = "run" /\ tk.nreq > 0) =>
                   /\ tk.nreq = 1 /\ SignedDigits(tok)
                   /\ tk.req.method = "POST" /\ tk.req.path = "/web/setTickets"
                   /\ tk.req.params = {}
                   /\ \E v \in {p[2] : p \in tk.req.json} :
                          /\ tk.req.json = {<<"ticketId", v>>}
                          /\ v.k = "int" /\ ToString(v.n) = Cat(tok)
                   /\ (tk.pc = "done" /\ tk.resp.kind = "http" /\ tk.resp.status = 200)
                          => (tk.nreply = 1 /\
                              tk.reply = <<"bound ", Cat(tok), "x ticket ok">>)
    /\ \A t1, t2 \in TaskIds :
           LET g == tasks[t1]
               r == tasks[t2]
           IN  ( /\ g.cmd = "go" /\ r.cmd = "run" /\ r.arg = <<"6">>
                 /\ g.user = r.user /\ g.seen = r.seen
                 /\ (g.exc = DbError) = (r.exc = DbError) ) =>
                   /\ g.headers = r.headers /\ g.req = r.req /\ g.nreq = r.nreq
                   /\ (g.pc = "done" /\ r.pc = "done" /\ g.resp = r.resp) =>
                          (g.reply = r.reply /\ g.nreply = r.nreply /\ g.exc = r.exc)

C8_Witness ==
    \E t1, t2 \in TaskIds :
        LET g == tasks[t1]
            r == tasks[t2]
        IN  /\ g.cmd = "go" /\ r.cmd = "run" /\ r.arg = <<"6">> /\ g.user = r.user
            /\ g.pc = "done" /\ r.pc = "done" /\ g.resp = r.resp
            /\ g.resp.kind = "http" /\ g.resp.status = 200
            /\ g.reply = <<"bound ", "6", "x ticket ok">>

\* the /run argument is missing or its first token is not an integer
BadRunArg(arg) == Strip(arg) = <<>> \/ ~SignedDigits(FirstToken(Strip(arg)))

\* C9 as stated: a /run with a missing or non-integer argument makes no
\* request and is answered with a usage message.
C9_Original ==
    \A t \in TaskIds :
        LET tk == tasks[t]
        IN  (tk.cmd = "run" /\ BadRunArg(tk.arg)) =>
                /\ tk.nreq = 0
                /\ (tk.pc = "done" /\ tk.exc = "") => tk.reply \in {RunUsage, RunNotInt}

\* C9 amended: a /run with a missing or non-integer argument never makes a
\* request; sent by a bound user it is answered with a usage message (the
\* usage text if the argument is missing, the must-be-an-integer text
\* otherwise), sent by an unbound user with the "please bind first" message.
C9_BadArgumentNoRequest ==
    \A t \in TaskIds :
        LET tk == tasks[t]
        IN  (tk.cmd = "run" /\ BadRunArg(tk.arg)) =>
                /\ tk.nreq = 0 /\ tk.pc # "await"
                /\ (tk.pc = "done" /\ tk.exc = "") =>
                       /\ tk.nreply = 1
                       /\ tk.reply = IF tk.headers = {} THEN NotBound("set ticket")
                                     ELSE IF Strip(tk.arg) = <<>> THEN RunUsage
                                     ELSE RunNotInt

C9_Witness ==
    \E t \in TaskIds :
        /\ tasks[t].cmd = "run" /\ tasks[t].arg = <<"6", "x">>
        /\ tasks[t].headers # {} /\ tasks[t].reply = RunNotInt

\* the integer the claim gives for a ticketId: its value when it converts,
\* 0 when it does not
CoercedOrZero(v) == IF ToIntRaises(v) THEN 0 ELSE ToInt(v, 0)

\* C10 as stated: a /getrun that got 200 with a JSON object whose turboTicket
\* is absent or an object replies "no ticket enabled" if turboTicket is
\* absent, isEnable is falsy or absent, or ticketId is absent, and otherwise
\* "current ticket multiplier is <int of ticketId>", 0 for a ticketId that does
\* not convert; no exception leaves the handler.
C10_GetrunReply ==
    \A t \in TaskIds :
        LET tk == tasks[t]
            data == tk.resp.body.v
            tt == DictGet(data, "turboTicket")
        IN  ( /\ tk.cmd = "getrun" /\ tk.pc = "done"
              /\ tk.resp.kind = "http" /\ tk.resp.status = 200
              /\ tk.resp.body.valid /\ data.k = "dict"
              /\ tt.k \in {"null", "dict"} ) =>
                /\ tk.exc = "" /\ tk.nreply = 1
                /\ tk.reply =
                       IF \/ tt.k = "null"
                          \/ ~Truthy(DictGet(tt, "isEnable"))
                          \/ IsNone(DictGet(tt, "ticketId"))
                       THEN GetrunDisabled
                       ELSE GetrunOk(CoercedOrZero(DictGet(tt, "ticketId")))

\* ---------------------------------------------------------------- C11
\* the texts the claim lets trigger: not starting with "/", a run of one or
\* more non-whitespace characters, then a final "j"
ClaimedTrigger(text) ==
    /\ Len(text) >= 2
    /\ text[1] # "/"
    /\ \A i \in 1..Len(text) : text[i] \notin {" ", "\n"}
    /\ text[Len(text)] = "j"

\* the text with exactly its last "j" removed
RECURSIVE WithoutLastJ(_)
WithoutLastJ(text) ==
    IF text = <<>> THEN <<>>
    ELSE IF text[Len(text)] = "j" THEN SubSeq(text, 1, Len(text) - 1)
    ELSE WithoutLastJ(SubSeq(text, 1, Len(text) - 1)) \o <<text[Len(text)]>>

\* C11 as stated: the arcade-detail handler runs for a text if and only if
\* the text does not start with "/" and is one or more non-whitespace
\* characters followed by a final "j", and the arcadeName it sends is the text
\* with exactly its last "j" removed.
C11_PatternTrigger ==
    /\ \A t \in TaskIds :
           tasks[t].cmd = "arcade" =>
               /\ ClaimedTrigger(tasks[t].arg)
               /\ tasks[t].nreq > 0 =>
                      tasks[t].req.params =
                          {<<"arcadeName", Cat(WithoutLastJ(tasks[t].arg))>>}
    /\ \A x \in Texts :
           (tasks["t1"].pc = "idle" /\ ClaimedTrigger(x)) =>
               ENABLED handle_arcade_detail("t1", <<"1">>, x, TRUE)

\* ---------------------------------------------------------------- C12
\* the lines of a reply: its parts split at the "\n" parts
RECURSIVE ReplyLines(_)
ReplyLines(parts) ==
    IF \A k \in 1..Len(parts) : parts[k] # "\n" THEN <<parts>>
    ELSE LET k == CHOOSE j \in 1..Len(parts) :
                      parts[j] = "\n" /\ \A h \in 1..(j - 1) : parts[h] # "\n"
         IN  <<SubSeq(parts, 1, k - 1)>> \o ReplyLines(SubSeq(parts, k + 1, Len(parts)))

\* the rendering the claim gives for a workingStatus value c in the reply of
\* cmd: 正常/警告/错误/未知 for mai_status, 工作中/警告/掉线啦！！！/未知 for net,
\* any other non-empty code as itself, an absent or empty one as UNKNOWN is
ClaimedRendering(cmd, c) ==
    LET code == IF c.k = "str" THEN Cat(c.s) ELSE ""
        known == IF cmd = "mai_status"
                 THEN [WORKING |-> "normal", WARNING |-> "warning",
                       ERROR |-> "error", UNKNOWN |-> "unknown"]
                 ELSE [WORKING |-> "working", WARNING |-> "warning",
                       ERROR |-> "offline!!!", UNKNOWN |-> "unknown"]
    IN  IF c.k = "null" \/ code = "" THEN known["UNKNOWN"]
        ELSE IF code \in {"WORKING", "WARNING", "ERROR", "UNKNOWN"} THEN known[code]
        ELSE code

\* a mai_status or net invocation that replied with a list of arcades
RenderedList(tk) ==
    /\ tk.cmd \in {"mai_status", "net"} /\ tk.pc = "done"
    /\ tk.exc = "" /\ tk.nreply = 1
    /\ tk.resp.kind = "http" /\ tk.resp.status = 200 /\ tk.resp.body.valid
    /\ tk.resp.body.v.k = "list" /\ tk.resp.body.v.l # <<>>

\* C12: in the replies of mai_status and net, the status shown on the line of
\* an arcade is the translation of its workingStatus in the table of that
\* formatter, the code itself when it is non-empty and not in the table, and
\* the translation of UNKNOWN when it is absent or empty.
C12_StatusTranslation ==
    \A t \in TaskIds :
        LET tk == tasks[t]
            data == tk.resp.body.v.l
            L == ReplyLines(tk.reply)
            off == IF tk.cmd = "mai_status" THEN 1 ELSE 0
            pos == IF tk.cmd = "mai_status" THEN 6 ELSE 5
        IN  RenderedList(tk) =>
                /\ Len(L) - off \in 1..Len(data)
                /\ \A i \in 1..(Len(L) - off) :
                       L[i + off][pos] =
                           ClaimedRendering(tk.cmd, DictGet(data[i], "workingStatus"))

\* mai_status has rendered an empty code, a code outside the table and ERROR
C12_Witness ==
    \E t \in TaskIds :
        LET tk == tasks[t]
            L == ReplyLines(tk.reply)
        IN  /\ RenderedList(tk) /\ tk.cmd = "mai_status"
            /\ Len(tk.resp.body.v.l) = 6 /\ Len(L) = 6
            /\ DictGet(tk.resp.body.v.l[1], "workingStatus") = JStr(<<>>)
            /\ L[2][6] = "unknown" /\ L[3][6] = "PAUSED" /\ L[5][6] = "error"

\* ---------------------------------------------------------------- C13
Min(a, b) == IF a < b THEN a ELSE b

\* the names shown for a song and for an arcade
SongName(song) == PyStr(PyOr(DictGet(song, "musicName"), JStr(<<"?">>)))
ArcadeName(arcade) == PyStr(PyOr(DictGet(arcade, "arcadeName"), JStr(<<"?">>)))

\* a /mai invocation that replied with the profile of a JSON object
RenderedProfile(tk) ==
    /\ tk.cmd = "mai" /\ tk.pc = "done" /\ tk.exc = "" /\ tk.nreply = 1
    /\ tk.resp.kind = "http" /\ tk.resp.status = 200 /\ tk.resp.body.valid
    /\ tk.resp.body.v.k = "dict"

\* the section of a score list in the lines L of a profile: no header at all
\* for an empty list, otherwise a blank line, the header once, and right
\* after it the first min(len, 3) songs in their order, numbered from 1, and
\* no further song line
FirstThreeInOrder(L, title, songs) ==
    LET at == {k \in 1..Len(L) : L[k] = <<title>>}
        m == Min(Len(songs), 3)
    IN  IF songs = <<>> THEN at = {}
        ELSE \E k \in at :
                 /\ at = {k}
                 /\ k > 1 /\ L[k - 1] = <<>>
                 /\ k + m <= Len(L)
                 /\ \A i \in 1..m : /\ L[k + i][1] = ToString(i) \o ". "
                                      /\ L[k + i][2] = SongName(songs[i])
                 /\ k + m < Len(L) => L[k + m + 1] = <<>>

\* C13: /mai renders the first min(len, 3) entries of best35 and of
\* recentScores in the order given and omits the section of an empty list,
\* header included; mai_status renders the first min(len, 5) arcades in the
\* order given; net renders every arcade in the order given, each prefixed
\* with its 1-based ordinal.
C13_CappedLists ==
    \A t \in TaskIds :
        LET tk == tasks[t]
            data == tk.resp.body.v
            L == ReplyLines(tk.reply)
        IN  /\ RenderedProfile(tk) =>
                   /\ FirstThreeInOrder(L, "=== Best 35 Top 3 ===",
                          PyOr(DictGet(data, "best35"), JList(<<>>)).l)
                   /\ FirstThreeInOrder(L, "=== recent Top 3 ===",
                          PyOr(DictGet(data, "recentScores"), JList(<<>>)).l)
            /\ (RenderedList(tk) /\ tk.cmd = "mai_status") =>
                   /\ Len(L) = 1 + Min(Len(data.l), 5)
                   /\ \A i \in 1..Min(Len(data.l), 5) : L[i + 1][2] = ArcadeName(data.l[i])
            /\ (RenderedList(tk) /\ tk.cmd = "net") =>
                   /\ Len(L) = Len(data.l)
                   /\ \A i \in 1..Len(data.l) : /\ L[i][1] = ToString(i)
                                                  /\ L[i][3] = ArcadeName(data.l[i])

\* /mai has rendered a best35 of six songs given as 6, 5, ..., 1 with no
\* recent scores
C13_Witness ==
    \E t \in TaskIds :
        LET tk == tasks[t]
            data == tk.resp.body.v
            best35 == DictGet(data, "best35")
        IN  /\ RenderedProfile(tk)
            /\ best35.k = "list" /\ Len(best35.l) = 6
            /\ SongName(best35.l[1]) = "6"
            /\ ~Truthy(DictGet(data, "recentScores"))
            /\ \E k \in 1..Len(tk.reply) : tk.reply[k] = "=== Best 35 Top 3 ==="

\* ---------------------------------------------------------------- C14
\* an arcade-detail invocation that replied with the detail of a JSON object
RenderedDetail(tk) ==
    /\ tk.cmd = "arcade" /\ tk.pc = "done" /\ tk.exc = "" /\ tk.nreply = 1
    /\ tk.resp.kind = "http" /\ tk.resp.status = 200 /\ tk.resp.body.valid
    /\ tk.resp.body.v.k = "dict"

\* the roster of a detail reply: the lines between the header
\* "当前店内玩家列表：" and the closing network line
Roster(L) ==
    LET k == CHOOSE j \in 1..Len(L) : L[j] = <<"players in the arcade:">>
    IN  SubSeq(L, k + 1, Len(L) - 1)

\* C14 as stated: the roster never has more player lines than a fixed cap,
\* and it is the single line "暂无" for an empty or absent playerList. The
\* claim names no number; the cap is taken as the largest one the formatters
\* apply, the five of mai_status.
C14_Original ==
    \A t \in TaskIds :
        LET tk == tasks[t]
            player_list == PyOr(DictGet(tk.resp.body.v, "playerList"), JList(<<>>)).l
            roster == Roster(ReplyLines(tk.reply))
        IN  RenderedDetail(tk) =>
                IF player_list = <<>> THEN roster = <<<<"none">>>>
                ELSE Len(roster) <= StatusCap

\* C14, amended: the roster is not capped. It has one line per entry of
\* playerList, in the order given, whatever the length of the list, and it is
\* the single line "暂无" for an empty or absent playerList.
C14_RosterRendersAll ==
    \A t \in TaskIds :
        LET tk == tasks[t]
            L == ReplyLines(tk.reply)
            player_list == PyOr(DictGet(tk.resp.body.v, "playerList"), JList(<<>>)).l
            roster == Roster(L)
        IN  RenderedDetail(tk) =>
                /\ \E k \in 1..Len(L) : L[k] = <<"players in the arcade:">>
                /\ L[Len(L)][1] = "network: requests "
                /\ IF player_list = <<>> THEN roster = <<<<"none">>>>
                   ELSE /\ Len(roster) = Len(player_list)
                        /\ \A i \in 1..Len(player_list) :
                               roster[i][1] =
                                   PyStr(PyOr(DictGet(player_list[i], "maimaiName"),
                                              JStr(<<"?">>)))

\* a detail reply has rendered a playerList of six entries
C14_Witness ==
    \E t \in TaskIds :
        LET tk == tasks[t]
            player_list == DictGet(tk.resp.body.v, "playerList")
        IN  /\ RenderedDetail(tk)
            /\ player_list.k = "list" /\ Len(player_list.l) = 6
            /\ Len(Roster(ReplyLines(tk.reply))) = 6

====
